---- MODULE Spec2Model ----
(***************************************************************************)
(* A model of plugins/PDS4Browser.py: the PDS4Browser plugin (directory    *)
(* listing, path expansion, batch loading) and PDS4LabelHandler.load_file  *)
(* (the image orientation transform).                                      *)
(*                                                                         *)
(* Python strings are sequences of one-character strings, so that          *)
(* endswith/strip, os.path.split/join/abspath, glob and the sub-index      *)
(* suffix are computed character by character as the libraries do.         *)
(***************************************************************************)
EXTENDS Integers, Sequences, FiniteSets, TLC

VARIABLES
    fs,         \* the filesystem: node (sequence of names below /) -> kind
    dirorder,   \* the order in which the OS enumerates directory entries
    content,    \* what pds4_read finds in each regular file
    fitsimage,  \* self.fitsimage is not None (opened as a local plugin)
    channel,    \* fv.get_channel_info() is not None
    jumpinfo,   \* self.jumpinfo: the current listing
    curpath,    \* self.curpath: the current pattern
    entry,      \* text of the path text box (self.entry)
    tree,       \* the table shown by self.treeview (name -> row)
    errors,     \* number of fv.show_error calls made by the last handler
    delivered,  \* images handed to destobj.set_image by the last handler
    last,       \* the last handler run, its argument and how it ended
    nin,        \* load_file input  (orientation specification only)
    nout        \* load_file result (orientation specification only)

vars == <<fs, dirorder, content, fitsimage, channel, jumpinfo, curpath, entry,
          tree, errors, delivered, last, nin, nout>>

----------------------------------------------------------------------------
(* Characters and strings *)

\* The characters in use, in code point order (Python compares str by code point).
CodeOrder == <<" ", "*", ".", "/", "1", "2", ":", "D", "[", "]",
               "d", "e", "f", "i", "l", "m", "n", "s", "t", "x", "z">>

Ord(c) == CHOOSE i \in 1..Len(CodeOrder) : CodeOrder[i] = c

\* str.lower() on one character
LowerChar(c) == IF c = "D" THEN "d" ELSE c

\* str.lower()
Lower(s) == [i \in 1..Len(s) |-> LowerChar(s[i])]

\* Python's s < t on strings
RECURSIVE StrLess(_, _)
StrLess(s, t) ==
    IF t = <<>> THEN FALSE
    ELSE IF s = <<>> THEN TRUE
    ELSE IF s[1] = t[1] THEN StrLess(Tail(s), Tail(t))
    ELSE Ord(s[1]) < Ord(t[1])

\* the value of an expression, given as the singleton {e}
Val(S) == CHOOSE x \in S : TRUE

StartsWith(s, p) == Len(s) >= Len(p) /\ SubSeq(s, 1, Len(p)) = p
EndsWith(s, c) == Len(s) > 0 /\ s[Len(s)] = c
Drop(s, n) == SubSeq(s, n + 1, Len(s))

\* s.rfind(c) + 1: the 1-based position of the last c, 0 when there is none
RFind(s, c) ==
    LET hits == {i \in 1..Len(s) : s[i] = c}
    IN  IF hits = {} THEN 0 ELSE CHOOSE i \in hits : \A j \in hits : j <= i

\* s.find(c), 1-based, 0 when there is none
Find(s, c) ==
    LET hits == {i \in 1..Len(s) : s[i] = c}
    IN  IF hits = {} THEN 0 ELSE CHOOSE i \in hits : \A j \in hits : i <= j

\* s.rstrip('/')
RECURSIVE RStripSlash(_)
RStripSlash(s) == IF EndsWith(s, "/") THEN RStripSlash(SubSeq(s, 1, Len(s) - 1)) ELSE s

\* s.split('/')
RECURSIVE SplitSlash(_)
SplitSlash(s) ==
    LET i == Find(s, "/")
    IN  IF i = 0 THEN <<s>>
        ELSE <<SubSeq(s, 1, i - 1)>> \o SplitSlash(Drop(s, i))

\* '/'.join(comps)
RECURSIVE JoinSlash(_)
JoinSlash(comps) ==
    IF comps = <<>> THEN <<>>
    ELSE IF Len(comps) = 1 THEN comps[1]
    ELSE comps[1] \o <<"/">> \o JoinSlash(Tail(comps))

IsDigit(c) == c \in {"1", "2"}

----------------------------------------------------------------------------
(* os.path *)

\* os.path.split
Split(p) ==
    LET i    == RFind(p, "/")
        head == SubSeq(p, 1, i)
        tail == Drop(p, i)
    IN  IF head # <<>> /\ RStripSlash(head) # <<>>
        THEN <<RStripSlash(head), tail>>
        ELSE <<head, tail>>

\* os.path.join(a, b)
Join(a, b) ==
    IF StartsWith(b, <<"/">>) THEN b
    ELSE IF a = <<>> \/ EndsWith(a, "/") THEN a \o b
    ELSE a \o <<"/">> \o b

\* os.path.splitext(name)[1]
SplitExt(name) ==
    LET i == RFind(name, ".")
        lead == {j \in 1..Len(name) : \A k \in 1..j : name[k] = "."}
    IN  IF i = 0 \/ i \in lead THEN <<>> ELSE SubSeq(name, i, Len(name))

\* the loop of os.path.normpath over the components
RECURSIVE NormComps(_, _, _)
NormComps(comps, acc, rooted) ==
    IF comps = <<>> THEN acc
    ELSE LET c == comps[1]
             up == <<".", ".">>
         IN  IF c = <<>> \/ c = <<".">> THEN NormComps(Tail(comps), acc, rooted)
             ELSE IF c # up \/ (~rooted /\ acc = <<>>)
                              \/ (acc # <<>> /\ acc[Len(acc)] = up)
                  THEN NormComps(Tail(comps), Append(acc, c), rooted)
             ELSE IF acc # <<>>
                  THEN NormComps(Tail(comps), SubSeq(acc, 1, Len(acc) - 1), rooted)
             ELSE NormComps(Tail(comps), acc, rooted)

\* the process's working directory
Cwd == <<"/">>

\* os.path.abspath (paths beginning with exactly two slashes do not occur)
AbsPath(p) ==
    LET q == IF StartsWith(p, <<"/">>) THEN p ELSE Join(Cwd, p)
    IN  <<"/">> \o JoinSlash(NormComps(SplitSlash(q), <<>>, TRUE))

----------------------------------------------------------------------------
(* The filesystem, as the os calls of the plugin see it *)

\* the answer of a failed lookup (no node has this shape)
NotFound == <<<<"!">>>>

\* Walks the components of path p from the root as the kernel does; follows
\* symbolic links (a dangling one resolves to nothing).
RECURSIVE Walk(_, _, _)
Walk(f, comps, node) ==
    IF node = NotFound THEN NotFound
    ELSE IF comps = <<>> THEN node
    ELSE IF f[node] # "dir" THEN NotFound
    ELSE LET c == comps[1]
         IN  IF c = <<>> \/ c = <<".">> THEN Walk(f, Tail(comps), node)
             ELSE IF c = <<".", ".">>
                  THEN Walk(f, Tail(comps),
                            IF node = <<>> THEN node ELSE SubSeq(node, 1, Len(node) - 1))
             ELSE IF Append(node, c) \in DOMAIN f
                       /\ f[Append(node, c)] # "badlink"
                  THEN Walk(f, Tail(comps), Append(node, c))
             ELSE NotFound

\* the node a path names, following links
Resolve(f, p) ==
    IF p = <<>> THEN NotFound
    ELSE Walk(f, SplitSlash(IF StartsWith(p, <<"/">>) THEN p ELSE Join(Cwd, p)), <<>>)

\* the node a path names, not following a link in the last component (lstat)
LResolve(f, p) ==
    LET sp  == Split(p)
        dir == IF sp[1] = <<>> THEN Resolve(f, Cwd) ELSE Resolve(f, sp[1])
    IN  IF p = <<>> THEN NotFound
        ELSE IF sp[2] = <<>> \/ sp[2] = <<".">> \/ sp[2] = <<".", ".">> THEN Resolve(f, p)
        ELSE IF dir # NotFound /\ f[dir] = "dir" /\ Append(dir, sp[2]) \in DOMAIN f
             THEN Append(dir, sp[2])
        ELSE NotFound

IsDir(f, p)   == Resolve(f, p) # NotFound /\ f[Resolve(f, p)] = "dir"
IsFile(f, p)  == Resolve(f, p) # NotFound /\ f[Resolve(f, p)] = "file"
Exists(f, p)  == Resolve(f, p) # NotFound
LExists(f, p) == LResolve(f, p) # NotFound
IsLink(f, p)  == LResolve(f, p) # NotFound /\ f[LResolve(f, p)] = "badlink"

\* os.listdir / os.scandir: the names in a directory, in the OS's order
ListDir(f, order, p) ==
    LET d == Resolve(f, IF p = <<>> THEN <<".">> ELSE p)
        In(name) == Append(d, name) \in DOMAIN f
    IN  IF d = NotFound \/ f[d] # "dir" THEN <<>> ELSE SelectSeq(order, In)

----------------------------------------------------------------------------
(* glob and fnmatch *)

HasMagic(s) == \E i \in 1..Len(s) : s[i] \in {"*", "?", "["}

\* fnmatch.fnmatchcase: '*' matches any run, '[seq]' one character of seq
\* ('?', '!' and ranges are not in the alphabet)
RECURSIVE FnMatch(_, _)
FnMatch(n, p) ==
    IF p = <<>> THEN n = <<>>
    ELSE IF p[1] = "*"
         THEN FnMatch(n, Tail(p)) \/ (n # <<>> /\ FnMatch(Tail(n), p))
    ELSE IF p[1] = "["
         THEN LET rest  == Tail(p)
                  ends  == {k \in 2..Len(rest) : rest[k] = "]"}
                  close == CHOOSE k \in ends : \A j \in ends : k <= j
              IN  IF ends = {}
                  THEN n # <<>> /\ n[1] = "[" /\ FnMatch(Tail(n), rest)
                  ELSE n # <<>> /\ n[1] \in {rest[k] : k \in 1..(close - 1)}
                                /\ FnMatch(Tail(n), Drop(rest, close))
    ELSE n # <<>> /\ n[1] = p[1] /\ FnMatch(Tail(n), Tail(p))

\* glob._glob1: the entries of a directory that match a pattern
Glob1(f, order, dirname, pattern) ==
    LET Ok(name) == /\ (name[1] # "." \/ pattern[1] = ".")
                    /\ FnMatch(name, pattern)
    IN  SelectSeq(ListDir(f, order, dirname), Ok)

\* glob._glob0: a literal last component
Glob0(f, dirname, basename) ==
    IF basename = <<>>
    THEN (IF IsDir(f, dirname) THEN <<basename>> ELSE <<>>)
    ELSE (IF LExists(f, Join(dirname, basename)) THEN <<basename>> ELSE <<>>)

RECURSIVE Flatten(_)
Flatten(ss) == IF ss = <<>> THEN <<>> ELSE ss[1] \o Flatten(Tail(ss))

\* glob.glob(pathname), in its order of enumeration
RECURSIVE Glob(_, _, _)
Glob(f, order, pathname) ==
    LET sp       == Split(pathname)
        dirname  == sp[1]
        basename == sp[2]
        dirs     == IF dirname # pathname /\ HasMagic(dirname)
                    THEN Glob(f, order, dirname) ELSE <<dirname>>
        InDir(d) == LET names == IF HasMagic(basename)
                                 THEN Glob1(f, order, d, basename)
                                 ELSE Glob0(f, d, basename)
                    IN  [i \in 1..Len(names) |-> Join(d, names[i])]
    IN  IF ~HasMagic(pathname)
        THEN (IF basename # <<>>
              THEN (IF LExists(f, pathname) THEN <<pathname>> ELSE <<>>)
              ELSE (IF IsDir(f, dirname) THEN <<pathname>> ELSE <<>>))
        ELSE IF dirname = <<>> THEN Glob1(f, order, <<>>, basename)
        ELSE Flatten([i \in 1..Len(dirs) |-> InDir(dirs[i])])

----------------------------------------------------------------------------
(* numpy arrays: a shape and the element at every index (0-based) *)

Reverse(t) == [k \in 1..Len(t) |-> t[Len(t) + 1 - k]]

Indices(shape) ==
    IF shape = <<>> THEN {<<>>}
    ELSE LET top == CHOOSE m \in {shape[k] : k \in 1..Len(shape)} :
                        \A k \in 1..Len(shape) : shape[k] <= m
         IN  {t \in [1..Len(shape) -> 0..(top - 1)] : \A k \in 1..Len(shape) : t[k] < shape[k]}

\* what stands for Python's None where an array is expected
NoArray == [shape |-> <<>>, at |-> <<>>]

\* faulty variant of Transpose: the axes are left as they are
TransposeSkipped(im) == im

\* im.T: numpy reverses the order of all axes
Transpose(im) ==
    [shape |-> Reverse(im.shape),
     at    |-> [t \in Indices(Reverse(im.shape)) |-> im.at[Reverse(t)]]]

\* faulty variant of FlipAxis: the other of the first two axes is reversed
FlipAxisSwapped(im, k) ==
    [shape |-> im.shape,
     at    |-> [t \in Indices(im.shape) |->
                   im.at[[t EXCEPT ![3 - k] = im.shape[3 - k] - 1 - t[3 - k]]]]]

\* im[::-1] (k = 1) and im[:, ::-1] (k = 2): reverse along memory axis k - 1
FlipAxis(im, k) ==
    [shape |-> im.shape,
     at    |-> [t \in Indices(im.shape) |->
                   im.at[[t EXCEPT ![k] = im.shape[k] - 1 - t[k]]]]]

\* faulty variant of HasRightToLeft: the test is made on the other direction
HasLeftToRight(hdisp_dir) == hdisp_dir \in {"Left to Right"}

\* 'Right to Left' in hdisp_dir
HasRightToLeft(hdisp_dir) == hdisp_dir \in {"Right to Left"}

\* 'Top to Bottom' in vdisp_dir
HasTopToBottom(vdisp_dir) == vdisp_dir \in {"Top to Bottom"}

\* meta_data.get_axis_array(name): the axis of that name, <<>> for None
GetAxisArray(meta, name) ==
    IF name \in DOMAIN meta.axes THEN <<[sequence_number |-> meta.axes[name]]>> ELSE <<>>

\* the outcome of a call: raised = "" when it returned
Outcome(raised, im, idx, sunk) == [raised |-> raised, im |-> im, idx |-> idx, sunk |-> sunk]

\* load_file, lines 85-107: orient the selected array and hand it to dstobj
Orient(st, i, dstobj) ==
    LET raw   == st.data
        disp  == st.disp
        haxis == GetAxisArray(st, disp.horizontal_display_axis)
        im1   == IF haxis[1].sequence_number = 1 THEN Transpose(raw) ELSE raw
        im2   == IF HasRightToLeft(disp.horizontal_display_direction)
                 THEN FlipAxis(im1, 2) ELSE im1
        im3   == IF HasTopToBottom(disp.vertical_display_direction)
                 THEN FlipAxis(im2, 1) ELSE im2
    IN  IF ~st.is_array THEN Outcome("AttributeError", NoArray, i, NoArray)
        ELSE IF ~st.has_disp THEN Outcome("TypeError", NoArray, i, NoArray)
        ELSE IF haxis = <<>> THEN Outcome("TypeError", NoArray, i, NoArray)
        ELSE IF HasRightToLeft(disp.horizontal_display_direction) /\ Len(im1.shape) < 2
             THEN Outcome("IndexError", NoArray, i, NoArray)
        ELSE Outcome("", im3, i, IF dstobj THEN im3 ELSE NoArray)

\* load_file, lines 70-107, on what pds4_read returned; numhdu is <<>> for None
LoadStruct(struct, numhdu, dstobj) ==
    LET arrays == {i \in 1..Len(struct) : struct[i].is_array}
        first  == CHOOSE i \in arrays : \A j \in arrays : i <= j
    IN  IF numhdu = <<>>
        THEN (IF arrays = {}
              THEN Outcome("InvalidPDS4Data", NoArray, 0, NoArray)
              ELSE Orient(struct[first], first - 1, dstobj))
        ELSE (IF numhdu[1] + 1 \in 1..Len(struct)
              THEN Orient(struct[numhdu[1] + 1], numhdu[1], dstobj)
              ELSE Outcome("IndexError", NoArray, numhdu[1], NoArray))

----------------------------------------------------------------------------
(* What pds4_read can return: structures with their metadata *)

\* largest extent of an axis of a generated array
MaxDim == 4

\* names of the axes of an array, by sequence_number
AxisNames == <<"Line", "Sample", "Band">>

Ranks == 1..Len(AxisNames)

Shapes == UNION {[1..r -> 1..MaxDim] : r \in Ranks}

\* an array whose element at index t is t itself, so every element is distinct
RawArray(shape) == [shape |-> shape, at |-> [t \in Indices(shape) |-> t]]

\* the axis name a label gives for sequence number k; 0: a name no axis has
AxisName(k) == IF k = 0 THEN "Missing" ELSE AxisNames[k]

AxesOf(r) == [n \in {AxisNames[k] : k \in 1..r} |-> CHOOSE k \in 1..r : AxisNames[k] = n]

DisplayDirection(h, v, hd, vd) ==
    [horizontal_display_axis |-> AxisName(h), vertical_display_axis |-> AxisName(v),
     horizontal_display_direction |-> hd, vertical_display_direction |-> vd]

\* an array structure with Display_Settings
ArrayStruct(shape, h, v, hd, vd) ==
    [is_array |-> TRUE, has_disp |-> TRUE, data |-> RawArray(shape),
     axes |-> AxesOf(Len(shape)), disp |-> DisplayDirection(h, v, hd, vd)]

\* an array structure whose label has no Display_Settings
BareArrayStruct(shape) ==
    [is_array |-> TRUE, has_disp |-> FALSE, data |-> RawArray(shape),
     axes |-> AxesOf(Len(shape)), disp |-> DisplayDirection(0, 0, "", "")]

\* a table structure
TableStruct ==
    [is_array |-> FALSE, has_disp |-> FALSE, data |-> NoArray,
     axes |-> <<>>, disp |-> DisplayDirection(0, 0, "", "")]

HDirections == {"Left to Right", "Right to Left"}
VDirections == {"Bottom to Top", "Top to Bottom"}

\* the parameters of one load_file call: the array read (kind "array": with
\* Display_Settings naming axes h and v, 0 for a name no axis has; "bare":
\* without Display_Settings; "table": no array at all), whether a table
\* precedes it, numhdu (<<>> is None) and whether a dstobj is given
NormInputs ==
    [kind : {"array"}, shape : Shapes, h : 0..Len(AxisNames), v : 0..Len(AxisNames),
     hd : HDirections, vd : VDirections, pre : BOOLEAN, numhdu : {<<>>, <<0>>},
     dstobj : BOOLEAN]
    \cup
    [kind : {"bare", "table"}, shape : [1..2 -> 1..2], h : {0}, v : {0},
     hd : {"Left to Right"}, vd : {"Bottom to Top"}, pre : {FALSE},
     numhdu : {<<>>, <<1>>}, dstobj : {TRUE}]

\* a label cannot name an axis beyond the rank of its array
WellFormed(in) == in.h <= Len(in.shape) /\ in.v <= Len(in.shape)

\* what pds4_read returned for these parameters
StructOf(in) ==
    (IF in.pre THEN <<TableStruct>> ELSE <<>>)
    \o <<IF in.kind = "array" THEN ArrayStruct(in.shape, in.h, in.v, in.hd, in.vd)
         ELSE IF in.kind = "bare" THEN BareArrayStruct(in.shape)
         ELSE TableStruct>>

NotRun == Outcome("not run", NoArray, 0, NoArray)

\* the structure load_file selects (line 70-78), when it selects one
Selected(in) ==
    LET struct == StructOf(in)
        arrays == {i \in 1..Len(struct) : struct[i].is_array}
    IN  IF in.numhdu = <<>>
        THEN struct[CHOOSE i \in arrays : \A j \in arrays : i <= j]
        ELSE struct[in.numhdu[1] + 1]

----------------------------------------------------------------------------
(* Collaborators of the plugin: urlparse, pds4_read, iohelper, os.stat *)

IsLetter(c) == c \in {"d", "e", "f", "i", "l", "m", "n", "s", "t", "x", "z", "D"}
IsSchemeChar(c) == IsLetter(c) \/ c \in {"1", "2", "."}

\* urllib.parse.urlparse(filespec): <<scheme, path>>
UrlParse(s) ==
    LET i    == Find(s, ":")
        rest == Drop(s, i)
        tail == Drop(rest, 2)
        j    == Find(tail, "/")
    IN  IF i > 1 /\ IsLetter(s[1]) /\ \A k \in 1..(i - 1) : IsSchemeChar(s[k])
        THEN <<SubSeq(s, 1, i - 1),
               IF StartsWith(rest, <<"/", "/">>)
               THEN (IF j = 0 THEN <<>> ELSE Drop(tail, j - 1))
               ELSE rest>>
        ELSE <<<<>>, s>>

\* pds4_read(path): the structures of the label at path, or an error
Pds4Read(f, cont, path) ==
    IF IsFile(f, path) /\ cont[Resolve(f, path)].label
    THEN [raised |-> "", struct |-> cont[Resolve(f, path)].struct]
    ELSE [raised |-> "ReadError", struct |-> <<>>]

\* load_file, lines 68-107, the URL being parsed already
LoadParsed(f, cont, urlinfo, numhdu, dstobj) ==
    IF urlinfo[1] \notin {<<"f", "i", "l", "e">>, <<>>}
    THEN Outcome("IOError", NoArray, 0, NoArray)
    ELSE Val({IF read.raised # "" THEN Outcome(read.raised, NoArray, 0, NoArray)
              ELSE LoadStruct(read.struct, numhdu, dstobj) :
                 read \in {Pds4Read(f, cont, urlinfo[2])}})

\* PDS4LabelHandler.load_file(filespec, numhdu, dstobj)
LoadFile(f, cont, filespec, numhdu, dstobj) ==
    Val({LoadParsed(f, cont, urlinfo, numhdu, dstobj) : urlinfo \in {UrlParse(filespec)}})

Digits == <<"0", "1", "2", "3", "4", "5", "6", "7", "8", "9">>

\* int(s) for a string of digits
RECURSIVE ToInt(_)
ToInt(ds) ==
    IF ds = <<>> THEN 0
    ELSE 10 * ToInt(SubSeq(ds, 1, Len(ds) - 1))
         + (CHOOSE v \in 0..9 : Digits[v + 1] = ds[Len(ds)])

\* the digits of n in a base (str(n) and the digits of oct(n))
RECURSIVE InBase(_, _)
InBase(n, base) ==
    IF n < base THEN <<Digits[n + 1]>>
    ELSE InBase(n \div base, base) \o <<Digits[(n % base) + 1]>>

\* str(n)
Str(n) == InBase(n, 10)

\* oct(n)
Oct(n) == <<"0", "o">> \o InBase(n, 8)

\* iohelper.get_fileinfo(path): a trailing [digits] is the sub-index
\* (regex ^(.+)\[(\d+)\]$, numhdu = int(digits)); the rest is the file path
GetFileinfo(path) ==
    LET n    == Len(path)
        open == RFind(path, "[")
        ok   == /\ EndsWith(path, "]")
                /\ open > 1 /\ open <= n - 2
                /\ \A k \in (open + 1)..(n - 1) : IsDigit(path[k])
    IN  IF ok THEN [filepath |-> SubSeq(path, 1, open - 1),
                    numhdu |-> <<ToInt(SubSeq(path, open + 1, n - 1))>>]
        ELSE [filepath |-> path, numhdu |-> <<>>]

\* faulty variant of GetHduSuffix: the sub-index is not put back
GetHduSuffixDropped(numhdu) == <<>>

\* iohelper.get_hdu_suffix(numhdu): '' for None, else '[%d]'
GetHduSuffix(numhdu) ==
    IF numhdu = <<>> THEN <<>> ELSE <<"[">> \o Str(numhdu[1]) \o <<"]">>

\* time.ctime(t), as a rendering of t
CTime(t) == <<"@">> \o InBase(t, 10)

\* os.stat(path): follows links; <<>> for OSError
Stat(f, path) ==
    LET node == Resolve(f, path)
    IN  IF node = NotFound THEN <<>>
        ELSE <<[st_mode  |-> IF f[node] = "dir" THEN 16877 ELSE 33188,
                st_size  |-> IF f[node] = "dir" THEN 4096 ELSE 100 + Len(node[Len(node)]),
                st_mtime |-> 1500000000 + Len(node)]>>

----------------------------------------------------------------------------
(* PDS4Browser *)

NA == <<"N", "/", "A">>

\* faulty variant of NaDict: the placeholders are empty strings
NaDictEmpty ==
    [icon |-> "", name |-> <<>>, st_size_str |-> <<>>, st_mode_oct |-> <<>>,
     st_mtime_str |-> <<>>]

\* self.na_dict for the default columns: every column attribute is 'N/A'
NaDict ==
    [icon |-> "N/A", name |-> NA, st_size_str |-> NA, st_mode_oct |-> NA,
     st_mtime_str |-> NA]

\* get_info(path)
GetInfo(f, path) ==
    LET filename == Split(path)[2]
        ext      == SplitExt(filename)
        ftype    == IF IsDir(f, path) THEN "dir"
                    ELSE IF IsLink(f, path) THEN "link"
                    ELSE IF Lower(ext) = <<".", "x", "m", "l">> THEN "xml"
                    ELSE "file"
        filestat == Stat(f, path)
    IN  IF filestat # <<>>
        THEN [icon |-> NaDict.icon, path |-> path, name |-> filename, type |-> ftype,
              st_mode |-> filestat[1].st_mode, st_mode_oct |-> Oct(filestat[1].st_mode),
              st_size |-> filestat[1].st_size, st_size_str |-> Str(filestat[1].st_size),
              st_mtime |-> filestat[1].st_mtime,
              st_mtime_str |-> CTime(filestat[1].st_mtime)]
        ELSE [icon |-> NaDict.icon, path |-> path, name |-> filename, type |-> ftype,
              st_mode |-> 0, st_mode_oct |-> NaDict.st_mode_oct,
              st_size |-> 0, st_size_str |-> NaDict.st_size_str,
              st_mtime |-> 0, st_mtime_str |-> NaDict.st_mtime_str]

\* file_icon(bnch)
FileIcon(bnch) ==
    IF bnch.type = "dir" THEN "folder.png"
    ELSE IF bnch.type = "xml" THEN "fits.png"
    ELSE "file.png"

\* faulty variant of SortLower: list.sort() without the key, case-sensitive
RECURSIVE SortCaseSensitive(_)
SortCaseSensitive(xs) ==
    IF xs = <<>> THEN <<>>
    ELSE LET n      == Len(xs)
             x      == xs[n]
             sorted == SortCaseSensitive(SubSeq(xs, 1, n - 1))
             after  == {i \in 1..Len(sorted) : StrLess(x, sorted[i])}
             pos    == IF after = {} THEN Len(sorted) + 1
                       ELSE CHOOSE i \in after : \A j \in after : i <= j
         IN  SubSeq(sorted, 1, pos - 1) \o <<x>> \o SubSeq(sorted, pos, Len(sorted))

\* list.sort(key=lambda s: s.lower()): stable, ascending
RECURSIVE SortLower(_)
SortLower(xs) ==
    IF xs = <<>> THEN <<>>
    ELSE LET n      == Len(xs)
             x      == xs[n]
             sorted == SortLower(SubSeq(xs, 1, n - 1))
             after  == {i \in 1..Len(sorted) : StrLess(Lower(x), Lower(sorted[i]))}
             pos    == IF after = {} THEN Len(sorted) + 1
                       ELSE CHOOSE i \in after : \A j \in after : i <= j
         IN  SubSeq(sorted, 1, pos - 1) \o <<x>> \o SubSeq(sorted, pos, Len(sorted))

\* makelisting(path): the rows of the table, keyed by name
MakeTree(ji) ==
    [name \in {ji[i].name : i \in 1..Len(ji)} |->
        LET last_i == CHOOSE i \in 1..Len(ji) :
                         ji[i].name = name /\ \A j \in 1..Len(ji) : ji[j].name = name => j <= i
        IN  ji[last_i]]

\* browse(path), lines 386-400: the directory and the glob it will list
BrowseTarget(f, path) ==
    [dirname  |-> AbsPath(IF IsDir(f, path) THEN path ELSE Split(path)[1]),
     globname |-> IF IsDir(f, path) \/ Split(path)[2] = <<>> THEN <<"*">>
                  ELSE Split(path)[2]]

\* browse(path), lines 404-408 with the icons of makelisting: the new jumpinfo
DirListing(f, order, dirname, path) ==
    Val({[i \in 1..Len(filelist) |->
             Val({[bnch EXCEPT !.icon = FileIcon(bnch)] :
                     bnch \in {GetInfo(f, filelist[i])}})] :
            filelist \in {<<Join(dirname, <<".", ".">>)>> \o SortLower(Glob(f, order, path))}})

\* the outcome of load_paths
Loaded(imgs, raised) == [delivered |-> imgs, raised |-> raised]

\* load_paths(paths): acc holds the images already handed to the destination
RECURSIVE LoadPaths(_, _, _, _, _, _)
LoadPaths(f, cont, fi, ch, paths, acc) ==
    IF paths = <<>> THEN Loaded(acc, "")
    ELSE IF ~fi /\ ~ch THEN Loaded(acc, "")
    ELSE Val({IF r.raised # "" THEN Loaded(acc, r.raised)
              ELSE LoadPaths(f, cont, fi, ch, Tail(paths),
                             Append(acc, [path |-> paths[1], data |-> r.sunk])) :
                 r \in {LoadFile(f, cont, paths[1], <<>>, TRUE)}})

\* faulty variant of StripStar: the trailing wildcard is kept
StripStarKept(path) == path

\* open_files, line 321-322: strips a trailing wildcard
StripStar(path) ==
    IF EndsWith(path, "*") THEN SubSeq(path, 1, Len(path) - 1) ELSE path

\* open_files, line 324: the path names a directory (open_files returns False)
OpenFilesIsDir(f, path) == IsDir(f, StripStar(path))

\* open_files, lines 329-331: the matches of info.filepath, the suffix reattached
Expand(f, order, info) ==
    Val({[i \in 1..Len(files) |-> files[i] \o GetHduSuffix(info.numhdu)] :
            files \in {Glob(f, order, info.filepath)}})

\* open_files(path), lines 328-331: the locators handed to load_paths
OpenFilesPaths(f, order, path) ==
    Val({Expand(f, order, info) : info \in {GetFileinfo(StripStar(path))}})

\* str.strip()
RECURSIVE Strip(_)
Strip(s) ==
    IF s # <<>> /\ s[1] = " " THEN Strip(Tail(s))
    ELSE IF EndsWith(s, " ") THEN Strip(SubSeq(s, 1, Len(s) - 1))
    ELSE s

----------------------------------------------------------------------------
(* The disk the plugin runs against *)

nT   == <<"t">>
nS   == <<"s">>
nZ   == <<"z">>
nD1  == <<"d", "1", ".", "x", "m", "l">>
nD1u == <<"D", "1", ".", "x", "m", "l">>
nD2  == <<"d", "2", ".", "x", "m", "l">>
nN   == <<"n", ".", "t", "x", "t">>

\* /t holds two labels whose names differ only in case, a third label, a text
\* file, a dangling symbolic link and an empty directory
Disk ==
    (<<>> :> "dir") @@ (<<nT>> :> "dir") @@ (<<nT, nS>> :> "dir")
    @@ (<<nT, nZ>> :> "badlink") @@ (<<nT, nD1>> :> "file")
    @@ (<<nT, nD1u>> :> "file") @@ (<<nT, nD2>> :> "file") @@ (<<nT, nN>> :> "file")

\* orders in which the OS may enumerate the names (none of them sorted)
Orders ==
    {<<nZ, nD2, nD1u, nN, nD1, nS, nT>>, <<nS, nD1, nN, nD2, nD1u, nZ, nT>>}

Label(struct) == [label |-> TRUE, struct |-> struct]
NoLabel == [label |-> FALSE, struct |-> <<>>]

\* what a label file may hold
Labels ==
    {Label(<<ArrayStruct(<<2, 3>>, 2, 1, "Left to Right", "Top to Bottom")>>),
     Label(<<TableStruct>>)}

\* the contents of the files of /t: one of d1.xml, d2.xml holds an image and
\* the other only a table
Contents ==
    {(<<nT, nD1>> :> ab[1]) @@ (<<nT, nD2>> :> ab[2]) @@ (<<nT, nN>> :> NoLabel)
     @@ (<<nT, nD1u>> :> Label(<<TableStruct,
                                 ArrayStruct(<<2, 2>>, 1, 2, "Right to Left", "Bottom to Top")>>)) :
        ab \in {x \in Labels \X Labels : x[1] # x[2]}}

\* texts a user may type into the path text box
Exprs ==
    {<<"/", "t", "/", "*">>,
     <<"/", "t", "*">>,
     <<"/", "t", "/", "s">>,
     <<"/", "t", "/", "d", "*", ".", "x", "m", "l">>,
     <<"/", "t", "/", "*", ".", "x", "m", "l", "[", "1", "]">>,
     <<"/", "t", "/", "d", "2", ".", "x", "m", "l">>,
     <<"/", "t", "/", "d", "*">>,
     <<" ", "/", "t", "/", ".", ".", " ">>,
     <<>>}

\* patterns browse() may be called with
Patterns ==
    {<<"/", "x", "/", "*">>,
     <<"/", "t", "/", "d", "*", ".", "x", "m", "l">>,
     <<"/", "t", "/", "s", "/", ".", ".", "/", "[", "d", "D", "]", "*">>,
     <<"t", "/", "*", "l">>,
     <<"/", "t", "/", "s", "/", "*">>}

\* settings.get('home_path'), a directory when the plugin is constructed
HomeDir == <<"/", "t">>

----------------------------------------------------------------------------
(* The plugin as a state machine: one action per handler *)

\* what the last handler did: its name and argument, the exception that ended
\* it ("" for none), its calls of load_paths with the locators passed, its
\* calls of browse with the pattern passed
Record(op, arg, raised, loads, locators, browses, pattern) ==
    [op |-> op, arg |-> arg, raised |-> raised, loads |-> loads,
     locators |-> locators, browses |-> browses, pattern |-> pattern]

Init ==
    /\ fs = Disk
    /\ dirorder \in Orders
    /\ content \in Contents
    /\ fitsimage \in BOOLEAN
    /\ channel \in BOOLEAN
    /\ fitsimage => channel
    /\ jumpinfo = <<>>
    /\ curpath = Join(HomeDir, <<"*">>)
    /\ entry = <<>>
    /\ tree = <<>>
    /\ errors = 0
    /\ delivered = <<>>
    /\ last = Record("init", <<>>, "", 0, <<>>, 0, <<>>)
    /\ nin = <<>> /\ nout = <<>>

\* faulty variant of BrowseInvalid: curpath is assigned before the check
BrowseInvalidMovesCurpath(path, text) ==
    /\ errors' = 1
    /\ entry' = text
    /\ curpath' = path
    /\ UNCHANGED <<jumpinfo, tree>>

\* browse(path), lines 394-396: the leading path is no directory; show_error
\* and return
BrowseInvalid(path, text) ==
    /\ errors' = 1
    /\ entry' = text
    /\ UNCHANGED <<jumpinfo, curpath, tree>>

\* browse(path) as the whole of what handler op(arg) does; text is what the
\* path box holds when it is called
BrowseAct(op, arg, path, text) ==
    \E tg \in {BrowseTarget(fs, path)} :
        /\ IF ~IsDir(fs, tg.dirname)
           THEN BrowseInvalid(path, text)
           ELSE \E newpath \in {Join(tg.dirname, tg.globname)} :
                \E ji \in {DirListing(fs, dirorder, tg.dirname, newpath)} :
                    /\ jumpinfo' = ji
                    /\ curpath' = newpath
                    /\ entry' = newpath
                    /\ tree' = MakeTree(ji)
                    /\ errors' = 0
        /\ delivered' = <<>>
        /\ last' = Record(op, arg, "", 0, <<>>, 1, path)
        /\ UNCHANGED <<fs, dirorder, content, fitsimage, channel, nin, nout>>

\* load_paths(locs) as the whole of what handler op(arg) does
LoadAct(op, arg, locs, text) ==
    \E r \in {LoadPaths(fs, content, fitsimage, channel, locs, <<>>)} :
        /\ delivered' = r.delivered
        /\ last' = Record(op, arg, r.raised, 1, locs, 0, <<>>)
        /\ entry' = text
        /\ errors' = 0
        /\ UNCHANGED <<jumpinfo, curpath, tree>>
        /\ UNCHANGED <<fs, dirorder, content, fitsimage, channel, nin, nout>>

\* browse_cb(widget), the widget holding text
BrowseCbAct(op, arg, text) ==
    \E path \in {Strip(text)} :
        IF OpenFilesIsDir(fs, path)
        THEN BrowseAct(op, arg, path, text)
        ELSE \E locs \in {OpenFilesPaths(fs, dirorder, path)} : LoadAct(op, arg, locs, text)

\* open_file(path0)
OpenFileAct(op, path0) ==
    \E path \in {IF path0 = <<".", ".">>
                 THEN Join(Join(Split(curpath)[1], path0), Split(curpath)[2])
                 ELSE path0} :
        IF IsDir(fs, path)
        THEN \E p \in {Join(path, <<"*">>)} : BrowseAct(op, path0, p, entry)
        ELSE IF Exists(fs, path)
             THEN LoadAct(op, path0, <<<<"f", "i", "l", "e", ":", "/", "/">> \o path>>, entry)
        ELSE BrowseAct(op, path0, path, entry)

\* start(): the host opens the plugin
Start == BrowseAct("start", curpath, curpath, entry)

\* the Refresh button: refresh()
Refresh == BrowseAct("refresh", curpath, curpath, entry)

\* browse(path) called directly
BrowseTo == \E path \in Patterns : BrowseAct("browse", path, path, entry)

\* the user types text into the path box and activates it: browse_cb
BrowseCb == \E text \in Exprs : BrowseCbAct("browse_cb", text, text)

\* the rows the user may have selected in the table: up to two of them
Selections == {x \in SUBSET (1..Len(jumpinfo)) : Cardinality(x) <= 2}

\* the Load button: load_cb
LoadCb ==
    \E path \in {Strip(entry)} :
        IF ~OpenFilesIsDir(fs, path)
        THEN \E locs \in {OpenFilesPaths(fs, dirorder, path)} :
                 LoadAct("load_cb", entry, locs, entry)
        ELSE \E sel \in Selections :
             \E paths \in {SelectSeq([i \in 1..Len(jumpinfo) |-> jumpinfo[i].path],
                                     LAMBDA q : \E i \in sel : jumpinfo[i].path = q)} :
                 IF Len(paths) = 1 /\ IsDir(fs, paths[1])
                 THEN \E dirp \in {Join(paths[1], <<"*">>)} :
                          BrowseCbAct("load_cb", entry, dirp)
                 ELSE \E files \in {SelectSeq(paths, LAMBDA q : IsFile(fs, q))} :
                          LoadAct("load_cb", entry, files, entry)

\* a row of the table is double-clicked: item_dblclicked_cb -> open_file
ItemDblclickedCb == \E name \in DOMAIN tree : OpenFileAct("open_file", tree[name].path)

\* another process removes the empty directory /t/s
RemoveDir ==
    /\ <<nT, nS>> \in DOMAIN fs
    /\ fs' = [n \in DOMAIN fs \ {<<nT, nS>>} |-> fs[n]]
    /\ last' = Record("rmdir", <<>>, "", 0, <<>>, 0, <<>>)
    /\ UNCHANGED <<dirorder, content, fitsimage, channel, jumpinfo, curpath, entry,
                   tree, errors, delivered, nin, nout>>

Next ==
    \/ Start
    \/ Refresh
    \/ BrowseTo
    \/ BrowseCb
    \/ LoadCb
    \/ ItemDblclickedCb
    \/ RemoveDir

Spec == Init /\ [][Next]_vars

----------------------------------------------------------------------------
(* Orientation specification: load_file applied to every input *)

BrowserIdle ==
    /\ fs = <<>> /\ dirorder = <<>> /\ content = <<>>
    /\ fitsimage = FALSE /\ channel = FALSE
    /\ jumpinfo = <<>> /\ curpath = <<>> /\ entry = <<>> /\ tree = <<>>
    /\ errors = 0 /\ delivered = <<>> /\ last = <<>>

NormInit == nin \in NormInputs /\ WellFormed(nin) /\ nout = NotRun /\ BrowserIdle

NormLoad ==
    /\ nout = NotRun
    /\ nout' = LoadStruct(StructOf(nin), nin.numhdu, nin.dstobj)
    /\ UNCHANGED <<fs, dirorder, content, fitsimage, channel, jumpinfo, curpath, entry,
                   tree, errors, delivered, last, nin>>

NormSpec == NormInit /\ [][NormLoad]_vars

----------------------------------------------------------------------------
(* Claims about load_file's orientation transform (under NormSpec) *)

\* load_file ran on nin and returned an image
Returned == nout # NotRun /\ nout.raised = ""

\* the sequence number of the Horizontal / Vertical axis the label declares,
\* 0 when it names no axis of the array
SeqOf(st, name) == IF name \in DOMAIN st.axes THEN st.axes[name] ELSE 0
HSeq(st) == SeqOf(st, st.disp.horizontal_display_axis)
VSeq(st) == SeqOf(st, st.disp.vertical_display_axis)

\* element (r, c) of a 2D output with the declared direction flips undone
Unflipped(st, out, r, c) ==
    out.at[<<IF st.disp.vertical_display_direction = "Top to Bottom"
             THEN out.shape[1] - 1 - r ELSE r,
             IF st.disp.horizontal_display_direction = "Right to Left"
             THEN out.shape[2] - 1 - c ELSE c>>]

\* C3: for a 2D raw array, the output before the direction flips is the
\* transpose of raw (out[r][c] = raw[c][r], an m x n input giving n x m) exactly
\* when the Horizontal axis has sequence_number 1, and is raw itself otherwise.
C3_TransposeIffH1 ==
    (Returned /\ Len(Selected(nin).data.shape) = 2) =>
        LET st  == Selected(nin)
            raw == st.data
            out == nout.im
        IN  IF HSeq(st) = 1
            THEN /\ out.shape = <<raw.shape[2], raw.shape[1]>>
                 /\ \A r \in 0..(raw.shape[2] - 1), c \in 0..(raw.shape[1] - 1) :
                        Unflipped(st, out, r, c) = raw.at[<<c, r>>]
            ELSE /\ out.shape = raw.shape
                 /\ \A r \in 0..(raw.shape[1] - 1), c \in 0..(raw.shape[2] - 1) :
                        Unflipped(st, out, r, c) = raw.at[<<r, c>>]

\* a 4x3 raw array with Horizontal = sequence_number 1 came out 3x4
C3_Witness ==
    /\ Returned
    /\ Selected(nin).data.shape = <<4, 3>>
    /\ HSeq(Selected(nin)) = 1
    /\ nout.im.shape = <<3, 4>>
    /\ nout.im.at[<<2, 3>>] = <<3, 2>>

\* the inputs of the orientation round trip, with the given axis numbers
RoundTripCase(h, v) ==
    /\ Returned
    /\ Selected(nin).data.shape = <<3, 4>>
    /\ HSeq(Selected(nin)) = h /\ VSeq(Selected(nin)) = v
    /\ Selected(nin).disp.horizontal_display_direction = "Left to Right"
    /\ Selected(nin).disp.vertical_display_direction = "Bottom to Top"

\* C4 as stated: a 3x4 array with Horizontal = axis 1 and Vertical = axis 2,
\* both Increasing, is returned unchanged.
C4_Original == RoundTripCase(1, 2) => nout.im = Selected(nin).data

\* C4 amended: a 3x4 array with Horizontal = axis 2 and Vertical = axis 1, both
\* Increasing, gets no flip and no transpose and is returned unchanged; with
\* Horizontal = axis 1 and Vertical = axis 2 it is returned transposed (4x3).
C4_RoundTrip ==
    /\ RoundTripCase(2, 1) => nout.im = Selected(nin).data
    /\ RoundTripCase(1, 2) =>
          /\ nout.im.shape = <<4, 3>>
          /\ \A r \in 0..3, c \in 0..2 : nout.im.at[<<r, c>>] = Selected(nin).data.at[<<c, r>>]

C4_Witness == RoundTripCase(2, 1) /\ nout.im.shape = <<3, 4>>

\* a 2D array with its columns / its rows in reverse order
RevCols(a) ==
    [shape |-> a.shape,
     at |-> [t \in Indices(a.shape) |-> a.at[<<t[1], a.shape[2] - 1 - t[2]>>]]]
RevRows(a) ==
    [shape |-> a.shape,
     at |-> [t \in Indices(a.shape) |-> a.at[<<a.shape[1] - 1 - t[1], t[2]>>]]]

\* the same structure declared Left to Right and Bottom to Top
Undirected(st) ==
    [st EXCEPT !.disp.horizontal_display_direction = "Left to Right",
               !.disp.vertical_display_direction = "Bottom to Top"]

\* C5: against the output for the same 2D data declared without flips, a Right
\* to Left Horizontal direction reverses the columns and nothing else, a Top to
\* Bottom Vertical direction reverses the rows and nothing else, both together
\* reverse both, and the two reversals give the same array in either order.
C5_Flips ==
    (Returned /\ Len(Selected(nin).data.shape) = 2) =>
        LET st   == Selected(nin)
            base == Orient(Undirected(st), 0, FALSE).im
            rtl  == st.disp.horizontal_display_direction = "Right to Left"
            ttb  == st.disp.vertical_display_direction = "Top to Bottom"
        IN  /\ (~rtl /\ ~ttb) => nout.im = base
            /\ (rtl /\ ~ttb)  => nout.im = RevCols(base)
            /\ (~rtl /\ ttb)  => nout.im = RevRows(base)
            /\ (rtl /\ ttb)   => /\ nout.im = RevRows(RevCols(base))
                                 /\ nout.im = RevCols(RevRows(base))

\* both flips were applied to an array in which each changes something
C5_Witness ==
    /\ Returned
    /\ Selected(nin).data.shape = <<2, 3>>
    /\ Selected(nin).disp.horizontal_display_direction = "Right to Left"
    /\ Selected(nin).disp.vertical_display_direction = "Top to Bottom"
    /\ HSeq(Selected(nin)) = 2
    /\ nout.im.at[<<0, 0>>] = <<1, 2>>

\* the label names exactly one Horizontal and one Vertical axis of the array
AxisRolesResolved(st) ==
    /\ st.is_array /\ st.has_disp
    /\ st.disp.horizontal_display_axis \in DOMAIN st.axes
    /\ st.disp.vertical_display_axis \in DOMAIN st.axes
    /\ st.disp.horizontal_display_axis # st.disp.vertical_display_axis

\* load_file got as far as selecting a structure
HasSelected(in) ==
    IF in.numhdu = <<>> THEN \E i \in 1..Len(StructOf(in)) : StructOf(in)[i].is_array
    ELSE in.numhdu[1] + 1 \in 1..Len(StructOf(in))

\* C6: load_file ends in an error and hands no array to the sink whenever its
\* input is not a resolvable 2D plane: the label does not identify exactly one
\* Horizontal and one Vertical axis (MissingAxisRole), or the array has more
\* than two dimensions, no slicing ever being given (UnsupportedRank).
C6_RejectsUnresolvable ==
    (nout # NotRun /\ HasSelected(nin) /\ Selected(nin).is_array) =>
        LET st == Selected(nin)
        IN  (~AxisRolesResolved(st) \/ Len(st.data.shape) > 2) =>
                (nout.raised # "" /\ nout.sunk = NoArray)

----------------------------------------------------------------------------
(* Claims about the browser (under Spec) *)

\* the last handler called browse, and browse listed a directory
Listed == last.browses = 1 /\ errors = 0

\* the directory component of a pattern, resolved to an absolute path
\* (the pattern itself when it names a directory)
DirIn(f, pat) == AbsPath(IF IsDir(f, pat) THEN pat ELSE Split(pat)[1])
DirOf(pat) == DirIn(fs, pat)

\* the glob component of a pattern ('*' when it has none)
GlobOf(pat) ==
    IF IsDir(fs, pat) \/ Split(pat)[2] = <<>> THEN <<"*">> ELSE Split(pat)[2]

\* the position of path q in the sequence of paths qs
PosIn(qs, q) == CHOOSE i \in 1..Len(qs) : qs[i] = q

\* C1: after browse(pattern) on a pattern whose directory component D (made
\* absolute) is a directory, jumpinfo[0] is the parent entry D/.. and the rest
\* are exactly the glob matches, ascending by case-insensitive name, names
\* equal ignoring case staying in the order the filesystem enumerated them.
C1_SortedListing ==
    Listed =>
        LET D       == DirOf(last.pattern)
            matches == Glob(fs, dirorder, Join(D, GlobOf(last.pattern)))
            rest    == Tail(jumpinfo)
        IN  /\ jumpinfo[1].path = Join(D, <<".", ".">>)
            /\ jumpinfo[1].name = <<".", ".">>
            /\ Len(rest) = Len(matches)
            /\ {rest[i].path : i \in 1..Len(rest)} = {matches[i] : i \in 1..Len(matches)}
            /\ \A i \in 1..Len(rest) : rest[i].name = Split(rest[i].path)[2]
            /\ \A i, j \in 1..Len(rest) :
                 i < j =>
                    /\ ~StrLess(Lower(rest[j].name), Lower(rest[i].name))
                    /\ Lower(rest[i].name) = Lower(rest[j].name) =>
                          PosIn(matches, rest[i].path) < PosIn(matches, rest[j].path)

\* /t was listed with d1.xml enumerated before D1.xml: the tie keeps that order
\* although 'D' sorts before 'd'
C1_Witness ==
    /\ Listed
    /\ Len(jumpinfo) = 7
    /\ \E i \in 2..6 : jumpinfo[i].name = nD1 /\ jumpinfo[i + 1].name = nD1u

\* C2: in a batch handed to load_paths, with a destination at hand, every path
\* whose own load would succeed is delivered, although a format error
\* (no array in the label) is raised for another file of the batch.
C2_BatchSurvivesBadFile ==
    (last.loads = 1 /\ (fitsimage \/ channel)
        /\ \A j \in 1..Len(last.locators) :
              LoadFile(fs, content, last.locators[j], <<>>, TRUE).raised
                 \in {"", "InvalidPDS4Data"}) =>
        \A j \in 1..Len(last.locators) :
            LoadFile(fs, content, last.locators[j], <<>>, TRUE).raised = "" =>
                \E k \in 1..Len(delivered) : delivered[k].path = last.locators[j]

\* C7: a call of browse on a pattern whose directory component (made absolute)
\* is no directory shows one error and leaves jumpinfo, curpath and the table
\* exactly as they were, whatever ran before.
C7_InvalidDirKeepsListing ==
    [][(last'.browses = 1 /\ ~IsDir(fs', DirIn(fs', last'.pattern))) =>
          (errors' = 1 /\ jumpinfo' = jumpinfo /\ curpath' = curpath /\ tree' = tree)]_vars

\* Refresh failed on a directory that was listed and then removed; the listing stays
C7_Witness ==
    /\ last.op = "refresh" /\ last.browses = 1 /\ errors = 1
    /\ ~IsDir(fs, DirOf(last.pattern))
    /\ Len(jumpinfo) = 1
    /\ curpath = <<"/", "t", "/", "s", "/", "*">>

\* the sub-index suffix of an expression: the text from the last '[' on when
\* the expression ends in '[digits]', else nothing
SuffixOf(e) ==
    LET open == RFind(e, "[")
    IN  IF EndsWith(e, "]") /\ open > 1 /\ open + 1 < Len(e)
             /\ \A k \in (open + 1)..(Len(e) - 1) : e[k] \in {"1", "2"}
        THEN SubSeq(e, open, Len(e)) ELSE <<>>

\* an expression with one trailing '*' taken off
Unstarred(e) == IF e # <<>> /\ e[Len(e)] = "*" THEN SubSeq(e, 1, Len(e) - 1) ELSE e

\* the expression open_files was given by handler op(arg)
Expression == Strip(last.arg)

\* open_files expanded an expression that names no directory
Expanded ==
    /\ last.op \in {"browse_cb", "load_cb"} /\ last.loads = 1
    /\ ~IsDir(fs, Unstarred(Expression))

\* C8: for an expression that names no directory, the locators are the matches
\* of its glob part, one each and in glob order, each followed by the sub-index
\* suffix of the expression; /t/d*.xml gives exactly d1.xml and d2.xml, bare.
C8_OneLocatorPerMatch ==
    Expanded =>
        LET e       == Unstarred(Expression)
            suffix  == SuffixOf(e)
            matches == Glob(fs, dirorder, SubSeq(e, 1, Len(e) - Len(suffix)))
        IN  /\ last.locators = [i \in 1..Len(matches) |-> matches[i] \o suffix]
            /\ Expression = <<"/", "t", "/", "d", "*", ".", "x", "m", "l">> =>
                  /\ Len(last.locators) = 2
                  /\ {last.locators[i] : i \in 1..2}
                        = {<<"/", "t", "/">> \o nD1, <<"/", "t", "/">> \o nD2}

\* /t/*.xml[1] was expanded: three locators, each ending in [1]
C8_Witness ==
    /\ Expanded
    /\ Expression = <<"/", "t", "/", "*", ".", "x", "m", "l", "[", "1", "]">>
    /\ Len(last.locators) = 3
    /\ \A i \in 1..3 : SubSeq(last.locators[i], Len(last.locators[i]) - 2,
                              Len(last.locators[i])) = <<"[", "1", "]">>

\* C9: in a listing, an entry whose path fails to stat has size, mode and
\* mtime 0 and 'N/A' for their texts, and the listing has one entry for every
\* matched path plus the parent entry.
C9_StatFailureIsAnEntry ==
    Listed =>
        /\ Len(jumpinfo) = 1 + Len(Glob(fs, dirorder, curpath))
        /\ \A i \in 1..Len(jumpinfo) :
              Resolve(fs, jumpinfo[i].path) = NotFound =>
                 /\ jumpinfo[i].st_size = 0 /\ jumpinfo[i].st_mode = 0
                 /\ jumpinfo[i].st_mtime = 0
                 /\ jumpinfo[i].st_size_str = <<"N", "/", "A">>
                 /\ jumpinfo[i].st_mode_oct = <<"N", "/", "A">>
                 /\ jumpinfo[i].st_mtime_str = <<"N", "/", "A">>

\* /t was listed: the dangling link z is among its seven entries, zeroed
C9_Witness ==
    /\ Listed
    /\ Len(jumpinfo) = 7
    /\ \E i \in 2..7 : /\ jumpinfo[i].name = nZ /\ jumpinfo[i].st_size = 0
                       /\ jumpinfo[i].st_size_str = <<"N", "/", "A">>
                       /\ Resolve(fs, jumpinfo[i].path) = NotFound

\* C10: an activation of the path box does exactly one of a load attempt and a
\* browse; it browses if and only if the text, one trailing '*' stripped, names
\* a directory, and then loads nothing; else it only attempts the load and
\* leaves jumpinfo, curpath and the table alone, loading nothing on no match.
C10_LoadXorBrowse ==
    [][last'.op = "browse_cb" =>
          /\ last'.loads + last'.browses = 1
          /\ last'.browses = 1 <=> IsDir(fs', Unstarred(Strip(last'.arg)))
          /\ last'.browses = 1 => delivered' = <<>>
          /\ last'.loads = 1 =>
                /\ jumpinfo' = jumpinfo /\ curpath' = curpath /\ tree' = tree
                /\ last'.locators = <<>> => delivered' = <<>>]_vars

\* /t/d* was activated over a listing: no directory, no match, nothing changed
C10_Witness ==
    /\ last.op = "browse_cb"
    /\ last.arg = <<"/", "t", "/", "d", "*">>
    /\ last.loads = 1 /\ last.browses = 0 /\ last.locators = <<>>
    /\ Len(jumpinfo) = 7

====
